---- MODULE Spec2Model ----
(***************************************************************************)
(* Model of app/main.py: the /bitrix-linear webhook, which turns a Bitrix24 *)
(* event into one Linear issue and mirrors the event's attachment files    *)
(* through an R2 bucket.                                                   *)
(*                                                                         *)
(* Python values are records: None, Str(s) with s a sequence of one-token  *)
(* strings, List(l) with l a sequence of values.  A dict is a function     *)
(* whose DOMAIN is the set of keys that are present.                       *)
(***************************************************************************)
EXTENDS Integers, Sequences, FiniteSets, TLC

VARIABLES cfg, storage, pc, payload, assignee_id, issue, idx, resp_file,
          created_attachments, response, calls

vars == <<cfg, storage, pc, payload, assignee_id, issue, idx, resp_file,
          created_attachments, response, calls>>

\* ------------------------------------------------------------------ bounds
NumReqs == 2
MaxAtt == 2
MaxUsers == 2
MaxMissing == 1

Reqs == 1..NumReqs
\* the request of a run in which one event is delivered
Solo == {1}

\* ------------------------------------------------------------ Python values
None == [t |-> "none", s |-> <<>>]
Absent == [t |-> "absent", s |-> <<>>]
Str(s) == [t |-> "str", s |-> s]
List(l) == [t |-> "list", s |-> l]
Bool(b) == [t |-> "bool", s |-> b]
Bytes(b) == [t |-> "bytes", s |-> <<b>>]
\* a dict from a record of candidate values, dropping the Absent ones
Dict(rec) ==
    [t |-> "dict", s |-> [k \in {x \in DOMAIN rec : rec[x].t # "absent"} |-> rec[k]]]

EmptyDict == [t |-> "dict", s |-> [k \in {} |-> None]]

\* Python truth value: None, "", [] and {} are false
Truthy(v) ==
    CASE v.t = "dict" -> DOMAIN v.s # {}
      [] v.t \in {"str", "list", "bytes"} -> Len(v.s) > 0
      [] v.t = "bool" -> v.s
      [] OTHER -> FALSE

\* dict.get(key): None when the key is absent
Get(d, k) == IF k \in DOMAIN d.s THEN d.s[k] ELSE None

\* x or y
Or(x, y) == IF Truthy(x) THEN x ELSE y

\* str.lower(), token by token
LowerTok(c) == CASE c = "A" -> "a" [] c = "B" -> "b" [] c = "X" -> "x" [] OTHER -> c
Lower(s) == [k \in 1..Len(s) |-> LowerTok(s[k])]

\* ---------------------------------------------------------- configuration
TrackerVars == {"LINEAR_API_KEY", "LINEAR_TEAM_ID"}
R2Vars == {"R2_ACCESS_KEY_ID", "R2_SECRET_ACCESS_KEY", "R2_ACCOUNT_ID",
           "R2_BUCKET_NAME", "R2_PUBLIC_BASE_URL"}
ConfigVars == TrackerVars \cup R2Vars

\* the value of an environment variable that is set
EnvValue(v) ==
    IF v = "R2_PUBLIC_BASE_URL" THEN Str(<<"https://pub", "/">>) ELSE Str(<<v>>)

\* os.getenv at import: None for each variable that is not set
Configs ==
    {[v \in ConfigVars |-> IF v \in missing THEN None ELSE EnvValue(v)] :
        missing \in {m \in SUBSET ConfigVars : Cardinality(m) <= MaxMissing}}

\* ------------------------------------------------------------ URL helpers
\* A URL is a token sequence: scheme and host in the first token, then the
\* path tokens, then "?" and the query.
RECURSIVE FirstPos(_, _, _)
FirstPos(s, c, k) ==
    IF k > Len(s) THEN 0 ELSE IF s[k] = c THEN k ELSE FirstPos(s, c, k + 1)

RECURSIVE LastPos(_, _, _)
LastPos(s, c, k) ==
    IF k < 1 THEN 0 ELSE IF s[k] = c THEN k ELSE LastPos(s, c, k - 1)

\* urlparse(url).path: what follows the host, up to the query string
UrlPath(url) ==
    LET q == FirstPos(url, "?", 1)
        end == IF q = 0 THEN Len(url) ELSE q - 1
    IN  SubSeq(url, 2, end)

\* os.path.basename: what follows the last slash
Basename(path) == SubSeq(path, LastPos(path, "/", Len(path)) + 1, Len(path))

\* filename = raw_name or "ficheiro"
Filename(url) ==
    LET raw_name == Basename(UrlPath(url))
    IN  IF raw_name # <<>> THEN raw_name ELSE <<"ficheiro">>

\* str.rstrip('/')
RECURSIVE RStripSlash(_)
RStripSlash(s) ==
    IF s # <<>> /\ s[Len(s)] = "/" THEN RStripSlash(SubSeq(s, 1, Len(s) - 1)) ELSE s

\* key = f"attachments/{filename}"
Key(filename) == <<"attachments", "/">> \o filename

\* f"{R2_PUBLIC_BASE_URL.rstrip('/')}/{key}"
PublicUrl(base, key) == RStripSlash(base) \o <<"/">> \o key

\* ----------------------------------------------------------------- inputs
\* two sources whose paths end in the same file name, and one whose path
\* ends in a slash
Urls == { <<"http://x", "/", "f">>,
          <<"http://y", "/", "d", "/", "f", "?", "v">>,
          <<"http://x", "/">> }

UrlEntries == {Str(u) : u \in Urls} \cup {Str(<<>>), None}

SeqsUpTo(S, n) == UNION {[1..k -> S] : k \in 0..n}

AttachmentValues ==
    {Absent, None, Str(<<"http://x", "/", "f">>)}
        \cup {List(l) : l \in SeqsUpTo(UrlEntries, MaxAtt)}

\* the attachment values sent along with an assignee email, one of them a
\* URL whose path ends in a slash
FewAttachmentValues == {Absent, List(<<Str(<<"http://x", "/">>)>>)}

Emails == { <<"A", "@", "x">> }
NoEmailValues == {Absent, None, Str(<<>>)}

TitleValues == {Str(<<"T">>)}

Payload(title, email, atts) ==
    Dict([data |-> Dict([FIELDS |-> Dict([TITLE |-> title,
                                          ASSIGNEE_EMAIL |-> email,
                                          ATTACHMENT_URLS |-> atts])])])

\* the events delivered: every attachment value without an assignee email,
\* and every assignee email, null and empty too, with a few attachment values
Payloads ==
    {Payload(t, Absent, a) : t \in TitleValues, a \in AttachmentValues}
    \cup {Payload(t, e, a) : t \in TitleValues,
                             e \in NoEmailValues \cup {Str(m) : m \in Emails},
                             a \in FewAttachmentValues}

\* ------------------------------------------------------- tracker responses
ErrorLists == { <<"E1">>, <<"E2", "E1">> }

\* what the POST to the tracker can come back with: no response at all, a
\* body that is not JSON, or a JSON body {data, errors?}
NoResponse == [kind |-> "neterr", status_code |-> 0, text |-> <<>>,
               errors |-> Absent, data |-> None]

TextResponse == [kind |-> "text", status_code |-> 503, text |-> <<"<html>", "down">>,
                 errors |-> Absent, data |-> None]

Json(errors, data) ==
    [kind |-> "json", status_code |-> 200, text |-> <<>>, errors |-> errors, data |-> data]

\* a body without errors carries its data; a body with errors may carry data too
JsonResponses(dataSet) ==
    {Json(Absent, d) : d \in dataSet}
    \cup {Json(List(e), d) : e \in ErrorLists, d \in {None, CHOOSE d \in dataSet : TRUE}}

TrackerResponses(dataSet) == {NoResponse, TextResponse} \cup JsonResponses(dataSet)

ExcerptLen == 500

Take(s, n) == SubSeq(s, 1, IF Len(s) < n THEN Len(s) ELSE n)

InternalServerError == Str(<<"Internal Server Error">>)

Raise(status, detail, sent) ==
    [raised |-> TRUE, sent |-> sent, status |-> status, detail |-> detail, data |-> None]

\* a client that looks at the data only and never at the error list
linear_request_ignores_errors(key, resp) ==
    IF ~Truthy(key)
    THEN Raise(500, Str(<<"Falta ", "LINEAR_API_KEY">>), FALSE)
    ELSE IF resp.kind = "neterr"
    THEN Raise(500, InternalServerError, TRUE)
    ELSE IF resp.kind = "text"
    THEN Raise(502, Str(<<"Erro na resposta do Linear (status ",
                          ToString(resp.status_code), "): ">>
                        \o Take(resp.text, ExcerptLen)), TRUE)
    ELSE [raised |-> FALSE, sent |-> TRUE, status |-> 200, detail |-> None,
          data |-> resp.data]

\* a client that returns the data whenever the body carries some, and looks
\* at the error list only when it does not
linear_request_data_first(key, resp) ==
    IF ~Truthy(key)
    THEN Raise(500, Str(<<"Falta ", "LINEAR_API_KEY">>), FALSE)
    ELSE IF resp.kind = "neterr"
    THEN Raise(500, InternalServerError, TRUE)
    ELSE IF resp.kind = "text"
    THEN Raise(502, Str(<<"Erro na resposta do Linear (status ",
                          ToString(resp.status_code), "): ">>
                        \o Take(resp.text, ExcerptLen)), TRUE)
    ELSE IF Truthy(resp.errors) /\ ~Truthy(resp.data)
    THEN Raise(502, Dict([linear_errors |-> resp.errors]), TRUE)
    ELSE IF resp.data = Absent
    THEN Raise(500, InternalServerError, TRUE)
    ELSE [raised |-> FALSE, sent |-> TRUE, status |-> 200, detail |-> None,
          data |-> resp.data]

\* linear_request: the outcome of one call, given the API key and the
\* tracker's response. A parsed body without a data member ends in the
\* KeyError of data["data"], which no handler catches.
linear_request(key, resp) ==
    IF ~Truthy(key)
    THEN Raise(500, Str(<<"Falta ", "LINEAR_API_KEY">>), FALSE)
    ELSE IF resp.kind = "neterr"
    THEN Raise(500, InternalServerError, TRUE)
    ELSE IF resp.kind = "text"
    THEN Raise(502, Str(<<"Erro na resposta do Linear (status ",
                          ToString(resp.status_code), "): ">>
                        \o Take(resp.text, ExcerptLen)), TRUE)
    ELSE IF Truthy(resp.errors)
    THEN Raise(502, Dict([linear_errors |-> resp.errors]), TRUE)
    ELSE IF resp.data = Absent
    THEN Raise(500, InternalServerError, TRUE)
    ELSE [raised |-> FALSE, sent |-> TRUE, status |-> 200, detail |-> None,
          data |-> resp.data]

\* ------------------------------------------------------------ user lookup
User(id, email) == Dict([id |-> id, email |-> email])

Users == { User(Str(<<"U1">>), Str(<<"a", "@", "X">>)),
           User(Str(<<"U2">>), Str(<<"A", "@", "x">>)),
           User(Str(<<"U2">>), Str(<<"b", "@", "x">>)),
           User(None, Str(<<"a", "@", "x">>)),
           User(Str(<<"U1">>), None) }

UsersData ==
    {Dict([users |-> Dict([nodes |-> List(l)])]) : l \in SeqsUpTo(Users, MaxUsers)}
        \cup {Dict([users |-> None])}

\* (data.get("users") or {}).get("nodes") or []
Nodes(data) == Or(Get(Or(Get(data, "users"), EmptyDict), "nodes"), List(<<>>)).s

\* a comparison that forgets to lower-case
UserMatchesExact(u, email) == Or(Get(u, "email"), Str(<<>>)).s = email.s

UserMatches(u, email) == Lower(Or(Get(u, "email"), Str(<<>>)).s) = Lower(email.s)

\* the id of the first user whose email matches, None when there is none
RECURSIVE FindUser(_, _, _)
FindUser(users, email, k) ==
    IF k > Len(users) THEN None
    ELSE IF UserMatches(users[k], email) THEN Get(users[k], "id")
    ELSE FindUser(users, email, k + 1)

\* ------------------------------------------------------------ normalisation
Fields(p) == Or(Get(Or(Get(p, "data"), EmptyDict), "FIELDS"), EmptyDict)

\* a fallback that looks at SUBJECT before TITLE
TitleSubjectFirst(p) ==
    Or(Get(Fields(p), "SUBJECT"),
       Or(Get(Fields(p), "TITLE"),
          Or(Get(p, "title"), Str(<<"Item do Bitrix24">>))))

Title(p) ==
    Or(Get(Fields(p), "TITLE"),
       Or(Get(Fields(p), "SUBJECT"),
          Or(Get(p, "title"), Str(<<"Item do Bitrix24">>))))

Description(p) ==
    Or(Get(Fields(p), "COMMENTS"), Str(<<"Criado automaticamente pelo Bitrix24.">>))

AssigneeEmail(p) == Get(Fields(p), "ASSIGNEE_EMAIL")

\* fields.get("ATTACHMENT_URLS") or [], a single string made a list
\* a single string left as it is: iterating it yields its characters
AttachmentUrlsNoPromotion(p) ==
    LET v == Or(Get(Fields(p), "ATTACHMENT_URLS"), List(<<>>))
    IN  IF v.t = "str" THEN List([k \in 1..Len(v.s) |-> Str(<<v.s[k]>>)]) ELSE v

AttachmentUrls(p) ==
    LET v == Or(Get(Fields(p), "ATTACHMENT_URLS"), List(<<>>))
    IN  IF v.t = "str" THEN List(<<v>>) ELSE v

\* an input that carries assigneeId whatever was resolved
IssueInputAlwaysAssignee(p, team, assignee) ==
    Dict([title |-> Title(p), description |-> Description(p), teamId |-> team,
          assigneeId |-> assignee])

\* the issueCreate input: assigneeId only when an id was resolved
IssueInput(p, team, assignee) ==
    Dict([title |-> Title(p), description |-> Description(p), teamId |-> team,
          assigneeId |-> IF Truthy(assignee) THEN assignee ELSE Absent])

AttachInput(issue_id, filename, public_url) ==
    Dict([issueId |-> issue_id, title |-> Str(filename), url |-> Str(public_url)])

\* ------------------------------------------------------------------- calls
\* calls[r] is the history of the calls request r attempted: the operation,
\* the attachment index (0 outside the loop), what was sent, what came back,
\* and res: "ok", "fail", or "unsent" when the call was given up before
\* anything went out
Call(op, i, res, arg, reply) ==
    [op |-> op, i |-> i, res |-> res, arg |-> arg, reply |-> reply]

Res(out) == IF ~out.sent THEN "unsent" ELSE IF out.raised THEN "fail" ELSE "ok"

\* nothing comes back from a call that was not sent
NoReply == [kind |-> "unsent", status_code |-> 0, text |-> <<>>,
            errors |-> Absent, data |-> None]
Reply(out, resp) == IF out.sent THEN resp ELSE NoReply

Log(r, call) == calls' = [calls EXCEPT ![r] = Append(@, call)]

NoResponseYet == [status |-> 0, body |-> EmptyDict]

\* an exception reaching the framework: HTTPException(status, detail), or
\* any other exception as a plain 500
Abort(r, status, detail) ==
    /\ response' = [response EXCEPT ![r] = [status |-> status,
                                            body |-> Dict([detail |-> detail])]]
    /\ pc' = [pc EXCEPT ![r] = "aborted"]

\* ------------------------------------------------------------------- state
Init ==
    /\ cfg \in Configs
    /\ storage = [k \in {} |-> None]
    /\ pc = [r \in Reqs |-> "idle"]
    /\ payload = [r \in Reqs |-> EmptyDict]
    /\ assignee_id = [r \in Reqs |-> None]
    /\ issue = [r \in Reqs |-> None]
    /\ idx = [r \in Reqs |-> 0]
    /\ resp_file = [r \in Reqs |-> None]
    /\ created_attachments = [r \in Reqs |-> <<>>]
    /\ response = [r \in Reqs |-> NoResponseYet]
    /\ calls = [r \in Reqs |-> <<>>]

\* POST /bitrix-linear arrives with one of the given events: the payload is
\* parsed and normalised
ReceiveFrom(r, events) ==
    /\ pc[r] = "idle"
    /\ \E p \in events :
        /\ payload' = [payload EXCEPT ![r] = p]
        /\ pc' = [pc EXCEPT ![r] =
                    IF Truthy(AssigneeEmail(p)) THEN "resolve" ELSE "create"]
    /\ UNCHANGED <<cfg, storage, assignee_id, issue, idx, resp_file,
                   created_attachments, response, calls>>

Receive(r) == ReceiveFrom(r, Payloads)

\* a lookup whose tracker errors are swallowed as "not found"
GetUserIdByEmailSwallows(r) ==
    /\ pc[r] = "resolve"
    /\ \E resp \in TrackerResponses(UsersData) :
        LET out == linear_request(cfg["LINEAR_API_KEY"], resp)
        IN  /\ Log(r, Call("lookup", 0, Res(out), None, Reply(out, resp)))
            /\ assignee_id' = [assignee_id EXCEPT ![r] =
                    IF out.raised THEN None
                    ELSE FindUser(Nodes(out.data), AssigneeEmail(payload[r]), 1)]
            /\ pc' = [pc EXCEPT ![r] = "create"]
            /\ UNCHANGED response
    /\ UNCHANGED <<cfg, storage, payload, issue, idx, resp_file, created_attachments>>

\* get_user_id_by_email, called only for a non-empty email
GetUserIdByEmail(r) ==
    /\ pc[r] = "resolve"
    /\ \E resp \in TrackerResponses(UsersData) :
        LET out == linear_request(cfg["LINEAR_API_KEY"], resp)
        IN  /\ Log(r, Call("lookup", 0, Res(out), None, Reply(out, resp)))
            /\ IF out.raised
               THEN /\ Abort(r, out.status, out.detail)
                    /\ UNCHANGED assignee_id
               ELSE /\ assignee_id' = [assignee_id EXCEPT ![r] =
                            FindUser(Nodes(out.data), AssigneeEmail(payload[r]), 1)]
                    /\ pc' = [pc EXCEPT ![r] = "create"]
                    /\ UNCHANGED response
    /\ UNCHANGED <<cfg, storage, payload, issue, idx, resp_file, created_attachments>>

IssueIds == {"I1", "I2"}

\* the data of a successful issueCreate: the issue the tracker created
IssueData(input) ==
    {Dict([issueCreate |->
            Dict([success |-> Bool(TRUE),
                  issue |-> Dict([id |-> Str(<<i>>),
                                  identifier |-> Str(<<"ENG-", i>>),
                                  title |-> Get(input, "title"),
                                  url |-> Str(<<"https://linear.app/", i>>)])])]) :
        i \in IssueIds}

\* 1) create the issue
CreateIssue(r) ==
    /\ pc[r] = "create"
    /\ LET issue_input == IssueInput(payload[r], cfg["LINEAR_TEAM_ID"], assignee_id[r])
       IN \E resp \in TrackerResponses(IssueData(issue_input)) :
            LET out == linear_request(cfg["LINEAR_API_KEY"], resp)
            IN  /\ Log(r, Call("create", 0, Res(out), issue_input, Reply(out, resp)))
                /\ IF out.raised
                   THEN /\ Abort(r, out.status, out.detail)
                        /\ UNCHANGED <<issue, idx, created_attachments>>
                   ELSE /\ issue' = [issue EXCEPT ![r] =
                                        Get(Get(out.data, "issueCreate"), "issue")]
                        /\ created_attachments' = [created_attachments EXCEPT ![r] = <<>>]
                        /\ idx' = [idx EXCEPT ![r] = 1]
                        /\ pc' = [pc EXCEPT ![r] = "loop"]
                        /\ UNCHANGED response
    /\ UNCHANGED <<cfg, storage, payload, assignee_id, resp_file>>

Url(r) == AttachmentUrls(payload[r]).s[idx[r]]

InLoop(r) == pc[r] = "loop" /\ idx[r] <= Len(AttachmentUrls(payload[r]).s)

\* if not url: continue
\* an empty entry taken as the end of the list
SkipEmptyBreaks(r) ==
    /\ InLoop(r)
    /\ ~Truthy(Url(r))
    /\ idx' = [idx EXCEPT ![r] = Len(AttachmentUrls(payload[r]).s) + 1]
    /\ UNCHANGED <<cfg, storage, pc, payload, assignee_id, issue, resp_file,
                   created_attachments, response, calls>>

SkipEmpty(r) ==
    /\ InLoop(r)
    /\ ~Truthy(Url(r))
    /\ idx' = [idx EXCEPT ![r] = @ + 1]
    /\ UNCHANGED <<cfg, storage, pc, payload, assignee_id, issue, resp_file,
                   created_attachments, response, calls>>

Contents == {"b1", "b2"}
\* the content-type header a file is served with, absent for some
ContentTypeOf(b) == IF b = "b1" THEN Str(<<"application/pdf">>) ELSE Absent

\* what the GET of an attachment can come back with
DownloadFailures == {[kind |-> "neterr", status_code |-> 0],
                     [kind |-> "status", status_code |-> 404]}
Downloads ==
    {[kind |-> "ok", status_code |-> 200, content |-> Bytes(b),
      headers |-> Dict([content_type |-> ContentTypeOf(b)])] : b \in Contents}

\* resp_file.headers.get("content-type", "application/octet-stream")
HeaderContentType(headers) ==
    IF "content_type" \in DOMAIN headers.s THEN headers.s["content_type"]
    ELSE Str(<<"application/octet-stream">>)

\* a failed download that ends the loop (break) instead of going on
DownloadFailsBreaks(r) ==
    /\ InLoop(r)
    /\ Truthy(Url(r))
    /\ \E d \in DownloadFailures :
        Log(r, Call("download", idx[r], "fail", Url(r), d))
    /\ idx' = [idx EXCEPT ![r] = Len(AttachmentUrls(payload[r]).s) + 1]
    /\ UNCHANGED <<cfg, storage, pc, payload, assignee_id, issue, resp_file,
                   created_attachments, response>>

\* the download failed: the attachment is logged and skipped
DownloadFails(r) ==
    /\ InLoop(r)
    /\ Truthy(Url(r))
    /\ \E d \in DownloadFailures :
        Log(r, Call("download", idx[r], "fail", Url(r), d))
    /\ idx' = [idx EXCEPT ![r] = @ + 1]
    /\ UNCHANGED <<cfg, storage, pc, payload, assignee_id, issue, resp_file,
                   created_attachments, response>>

\* a download that is followed by the link call, with no upload between
DownloadThenLink(r) ==
    /\ InLoop(r)
    /\ Truthy(Url(r))
    /\ \E d \in Downloads :
        /\ resp_file' = [resp_file EXCEPT ![r] =
                [content |-> d.content, content_type |-> HeaderContentType(d.headers)]]
        /\ Log(r, Call("download", idx[r], "ok", Url(r), d))
    /\ pc' = [pc EXCEPT ![r] = "link"]
    /\ UNCHANGED <<cfg, storage, payload, assignee_id, issue, idx,
                   created_attachments, response>>

Download(r) ==
    /\ InLoop(r)
    /\ Truthy(Url(r))
    /\ \E d \in Downloads :
        /\ resp_file' = [resp_file EXCEPT ![r] =
                [content |-> d.content, content_type |-> HeaderContentType(d.headers)]]
        /\ Log(r, Call("download", idx[r], "ok", Url(r), d))
    /\ pc' = [pc EXCEPT ![r] = "upload"]
    /\ UNCHANGED <<cfg, storage, payload, assignee_id, issue, idx,
                   created_attachments, response>>

R2Configured(c) == \A v \in R2Vars : Truthy(c[v])

\* a put that keeps the object a key already holds
PutIfAbsent(store, key, obj) ==
    [k \in DOMAIN store \cup {key} |-> IF k \in DOMAIN store THEN store[k] ELSE obj]

Put(store, key, obj) ==
    [k \in DOMAIN store \cup {key} |-> IF k = key THEN obj ELSE store[k]]

\* an upload whose public URL is put in front of the list
UploadPrepends(r) ==
    /\ pc[r] = "upload"
    /\ LET filename == Filename(Url(r).s)
           key == Key(filename)
       IN  IF ~R2Configured(cfg)
           THEN /\ Abort(r, 500, Str(<<"Configuração R2 incompleta.">>))
                /\ Log(r, Call("upload", idx[r], "unsent", Str(key), NoReply))
                /\ UNCHANGED <<storage, created_attachments>>
           ELSE \E put_ok \in BOOLEAN :
                /\ Log(r, Call("upload", idx[r], IF put_ok THEN "ok" ELSE "fail",
                               Str(key), NoReply))
                /\ IF put_ok
                   THEN /\ storage' = Put(storage, key,
                                [Body |-> resp_file[r].content,
                                 ContentType |-> Or(resp_file[r].content_type,
                                                    Str(<<"application/octet-stream">>))])
                        /\ created_attachments' = [created_attachments EXCEPT ![r] =
                                <<Str(PublicUrl(cfg["R2_PUBLIC_BASE_URL"].s, key))>> \o @]
                        /\ pc' = [pc EXCEPT ![r] = "link"]
                        /\ UNCHANGED response
                   ELSE /\ Abort(r, 500, InternalServerError)
                        /\ UNCHANGED <<storage, created_attachments>>
    /\ UNCHANGED <<cfg, payload, assignee_id, issue, idx, resp_file>>

\* an upload that appends to one list shared by all requests
UploadSharedList(r) ==
    /\ pc[r] = "upload"
    /\ LET filename == Filename(Url(r).s)
           key == Key(filename)
       IN  IF ~R2Configured(cfg)
           THEN /\ Abort(r, 500, Str(<<"Configuração R2 incompleta.">>))
                /\ Log(r, Call("upload", idx[r], "unsent", Str(key), NoReply))
                /\ UNCHANGED <<storage, created_attachments>>
           ELSE \E put_ok \in BOOLEAN :
                /\ Log(r, Call("upload", idx[r], IF put_ok THEN "ok" ELSE "fail",
                               Str(key), NoReply))
                /\ IF put_ok
                   THEN /\ storage' = Put(storage, key,
                                [Body |-> resp_file[r].content,
                                 ContentType |-> Or(resp_file[r].content_type,
                                                    Str(<<"application/octet-stream">>))])
                        /\ created_attachments' = [q \in Reqs |->
                                Append(created_attachments[q],
                                       Str(PublicUrl(cfg["R2_PUBLIC_BASE_URL"].s, key)))]
                        /\ pc' = [pc EXCEPT ![r] = "link"]
                        /\ UNCHANGED response
                   ELSE /\ Abort(r, 500, InternalServerError)
                        /\ UNCHANGED <<storage, created_attachments>>
    /\ UNCHANGED <<cfg, payload, assignee_id, issue, idx, resp_file>>

\* upload_to_r2 and the append of its public URL
Upload(r) ==
    /\ pc[r] = "upload"
    /\ LET filename == Filename(Url(r).s)
           key == Key(filename)
       IN  IF ~R2Configured(cfg)
           THEN /\ Abort(r, 500, Str(<<"Configuração R2 incompleta.">>))
                /\ Log(r, Call("upload", idx[r], "unsent", Str(key), NoReply))
                /\ UNCHANGED <<storage, created_attachments>>
           ELSE \E put_ok \in BOOLEAN :
                /\ Log(r, Call("upload", idx[r], IF put_ok THEN "ok" ELSE "fail",
                               Str(key), NoReply))
                /\ IF put_ok
                   THEN /\ storage' = Put(storage, key,
                                [Body |-> resp_file[r].content,
                                 ContentType |-> Or(resp_file[r].content_type,
                                                    Str(<<"application/octet-stream">>))])
                        /\ created_attachments' = [created_attachments EXCEPT ![r] =
                                Append(@, Str(PublicUrl(cfg["R2_PUBLIC_BASE_URL"].s, key)))]
                        /\ pc' = [pc EXCEPT ![r] = "link"]
                        /\ UNCHANGED response
                   ELSE /\ Abort(r, 500, InternalServerError)
                        /\ UNCHANGED <<storage, created_attachments>>
    /\ UNCHANGED <<cfg, payload, assignee_id, issue, idx, resp_file>>

AttachData == {Dict([attachmentCreate |-> Dict([success |-> Bool(TRUE)])])}

\* a link call that is sent again after it failed
LinkRetries(r) ==
    /\ pc[r] = "link"
    /\ LET filename == Filename(Url(r).s)
           public_url == PublicUrl(cfg["R2_PUBLIC_BASE_URL"].s, Key(filename))
           input == AttachInput(Get(issue[r], "id"), filename, public_url)
       IN \E resp \in TrackerResponses(AttachData) :
            LET out == linear_request(cfg["LINEAR_API_KEY"], resp)
            IN  /\ Log(r, Call("link", idx[r], Res(out), input, Reply(out, resp)))
                /\ IF out.raised
                   THEN UNCHANGED <<idx, pc>>
                   ELSE /\ idx' = [idx EXCEPT ![r] = @ + 1]
                        /\ pc' = [pc EXCEPT ![r] = "loop"]
    /\ UNCHANGED <<cfg, storage, payload, assignee_id, issue, resp_file,
                   created_attachments, response>>

\* a link call whose failure is caught: the loop goes on to the next entry
LinkSkipsFailure(r) ==
    /\ pc[r] = "link"
    /\ LET filename == Filename(Url(r).s)
           public_url == PublicUrl(cfg["R2_PUBLIC_BASE_URL"].s, Key(filename))
           input == AttachInput(Get(issue[r], "id"), filename, public_url)
       IN \E resp \in TrackerResponses(AttachData) :
            LET out == linear_request(cfg["LINEAR_API_KEY"], resp)
            IN  Log(r, Call("link", idx[r], Res(out), input, Reply(out, resp)))
    /\ idx' = [idx EXCEPT ![r] = @ + 1]
    /\ pc' = [pc EXCEPT ![r] = "loop"]
    /\ UNCHANGED <<cfg, storage, payload, assignee_id, issue, resp_file,
                   created_attachments, response>>

\* attachmentCreate for the mirrored file
Link(r) ==
    /\ pc[r] = "link"
    /\ LET filename == Filename(Url(r).s)
           public_url == PublicUrl(cfg["R2_PUBLIC_BASE_URL"].s, Key(filename))
           input == AttachInput(Get(issue[r], "id"), filename, public_url)
       IN \E resp \in TrackerResponses(AttachData) :
            LET out == linear_request(cfg["LINEAR_API_KEY"], resp)
            IN  /\ Log(r, Call("link", idx[r], Res(out), input, Reply(out, resp)))
                /\ IF out.raised
                   THEN /\ Abort(r, out.status, out.detail)
                        /\ UNCHANGED idx
                   ELSE /\ idx' = [idx EXCEPT ![r] = @ + 1]
                        /\ pc' = [pc EXCEPT ![r] = "loop"]
                        /\ UNCHANGED response
    /\ UNCHANGED <<cfg, storage, payload, assignee_id, issue, resp_file,
                   created_attachments>>

\* the success response
Return(r) ==
    /\ pc[r] = "loop"
    /\ idx[r] > Len(AttachmentUrls(payload[r]).s)
    /\ response' = [response EXCEPT ![r] =
            [status |-> 200,
             body |-> Dict([ok |-> Bool(TRUE),
                            issue |-> issue[r],
                            assigneeEmail |-> AssigneeEmail(payload[r]),
                            assigneeId |-> assignee_id[r],
                            attachment_urls_received |-> AttachmentUrls(payload[r]),
                            attachments |-> List(created_attachments[r])])]]
    /\ pc' = [pc EXCEPT ![r] = "done"]
    /\ UNCHANGED <<cfg, storage, payload, assignee_id, issue, idx, resp_file,
                   created_attachments, calls>>

Step(r) ==
    \/ Receive(r)
    \/ GetUserIdByEmail(r)
    \/ CreateIssue(r)
    \/ SkipEmpty(r)
    \/ DownloadFails(r)
    \/ Download(r)
    \/ Upload(r)
    \/ Link(r)
    \/ Return(r)

Next == \E r \in Solo : Step(r)

Spec == Init /\ [][Next]_vars

\* ------------------------------------------------- two concurrent requests
\* the two requests of a concurrent run: the handler is a coroutine, and
\* another request can run at each of its awaits
Pair == {1, 2}

\* one attachment each, without assignee: equal file names, or not
ConcPayloads ==
    {Payload(t, Absent, List(<<Str(u)>>)) : t \in TitleValues, u \in Urls}

InitConc == Init /\ \A v \in ConfigVars : Truthy(cfg[v])

\* the steps of a request with such an event (it has no lookup to make and
\* no empty entry to skip)
NextConc ==
    \E r \in Pair :
        \/ ReceiveFrom(r, ConcPayloads)
        \/ CreateIssue(r)
        \/ DownloadFails(r)
        \/ Download(r)
        \/ Upload(r)
        \/ Link(r)
        \/ Return(r)

SpecConc == InitConc /\ [][NextConc]_vars

\* ------------------------------------------------- the client on its own
MaxCalls == 2

\* every body the POST can come back with: not JSON, or a JSON object whose
\* errors member is missing, null, empty or filled and whose data member is
\* missing, null or filled
ClientResponses ==
    {NoResponse, TextResponse}
    \cup {Json(e, d) :
            e \in {Absent, None, List(<<>>)} \cup {List(l) : l \in ErrorLists},
            d \in {Absent, None, Dict([viewer |-> Str(<<"V">>)])}}

\* one call of linear_request from idle; response holds what the call raised
\* (status and detail) or returned (the data)
Execute(r) ==
    /\ pc[r] = "idle"
    /\ Len(calls[r]) < MaxCalls
    /\ \E resp \in ClientResponses :
        LET out == linear_request(cfg["LINEAR_API_KEY"], resp)
        IN  /\ Log(r, Call("execute", 0, Res(out), None, Reply(out, resp)))
            /\ response' = [response EXCEPT ![r] =
                    IF out.raised
                    THEN [status |-> out.status, body |-> Dict([detail |-> out.detail])]
                    ELSE [status |-> out.status, body |-> Dict([data |-> out.data])]]
    /\ UNCHANGED <<cfg, storage, pc, payload, assignee_id, issue, idx, resp_file,
                   created_attachments>>

NextClient == \E r \in Solo : Execute(r)

SpecClient == Init /\ [][NextClient]_vars

\* ------------------------------------------------ events of every shape
TextValues(x) == {Absent, None, Str(<<>>), Str(<<x>>)}

\* the envelopes that carry no field set: no data, a null data, a data
\* without FIELDS, a null FIELDS
Envelopes(top) ==
    { Dict([title |-> top]),
      Dict([data |-> None, title |-> top]),
      Dict([data |-> EmptyDict, title |-> top]),
      Dict([data |-> Dict([FIELDS |-> None]), title |-> top]) }

NormPayloads ==
    {Dict([data |-> Dict([FIELDS |-> Dict([TITLE |-> t, SUBJECT |-> u, COMMENTS |-> c])]),
           title |-> top]) :
        t \in TextValues("T"), u \in TextValues("S"), c \in TextValues("C"),
        top \in TextValues("P")}
    \cup UNION {Envelopes(top) : top \in TextValues("P")}

\* such an event has no assignee and no attachment: its issue is created and
\* returned
NextNorm ==
    \E r \in Solo :
        \/ ReceiveFrom(r, NormPayloads)
        \/ CreateIssue(r)
        \/ Return(r)

SpecNorm == InitConc /\ [][NextNorm]_vars

\* ================================================================ properties
Completed(r) == pc[r] = "done"
Aborted(r) == pc[r] = "aborted"
Ended(r) == Completed(r) \/ Aborted(r)

Entries(r, op) == {k \in 1..Len(calls[r]) : calls[r][k].op = op}
EntriesAt(r, op, i) == {k \in Entries(r, op) : calls[r][k].i = i}
\* the calls that went out on the network
Sent(r, op) == {k \in Entries(r, op) : calls[r][k].res # "unsent"}
Failed(r, op) == {k \in Entries(r, op) : calls[r][k].res # "ok"}
AttachmentOps == {"download", "upload", "link"}

IssueCreated(r) == \E k \in Entries(r, "create") : calls[r][k].res = "ok"

Received(r) == AttachmentUrls(payload[r]).s
Body(r) == response[r].body

\* a success response that carries the issue the tracker created
ReturnsIssue(r) ==
    /\ Completed(r)
    /\ response[r].status = 200
    /\ \E k \in Entries(r, "create") :
          /\ calls[r][k].res = "ok"
          /\ Get(Body(r), "issue") = Get(Get(calls[r][k].reply.data, "issueCreate"), "issue")

\* what the tracker's reply to a call was
ReplyFails(reply) == reply.kind \in {"neterr", "text"} \/ Truthy(reply.errors)
ReplyOk(reply) == reply.kind = "json" /\ ~Truthy(reply.errors)

\* C1: a request is aborted only before the issue creation has succeeded;
\* once the tracker has created the issue the request ends in Completed.
C1_AbortOnlyBeforeCreate ==
    \A r \in Reqs :
        IssueCreated(r) => /\ ~Aborted(r)
                           /\ (Ended(r) => ReturnsIssue(r))

\* C3: a failed storage upload (the put failing, or the storage settings
\* found incomplete at upload time) is skipped and never aborts the request.
C3_UploadFailureSkipped ==
    \A r \in Reqs :
        Failed(r, "upload") # {} => /\ ~Aborted(r)
                                    /\ (Ended(r) => ReturnsIssue(r))

\* C4: a failed attachment-creation (link) call, transport or application
\* error, is skipped and never aborts the request.
C4_LinkFailureSkipped ==
    \A r \in Reqs :
        (\E k \in Entries(r, "link") : ReplyFails(calls[r][k].reply))
            => /\ ~Aborted(r)
               /\ (Ended(r) => ReturnsIssue(r))

\* every entry of the list is a non-empty URL
AllNonEmpty(r) == \A i \in 1..Len(Received(r)) : Truthy(Received(r)[i])

\* the download of entry j fails, and nothing else of the attachment stage does
OnlyDownloadFails(r, j) ==
    /\ \E k \in EntriesAt(r, "download", j) : calls[r][k].reply.kind # "ok"
    /\ \A k \in Entries(r, "download") : calls[r][k].reply.kind = "ok" \/ calls[r][k].i = j
    /\ \A k \in Entries(r, "upload") : calls[r][k].res = "ok"
    /\ \A k \in Entries(r, "link") : ReplyOk(calls[r][k].reply)

Mirrored(r, i) ==
    /\ \E k \in EntriesAt(r, "download", i) : calls[r][k].res = "ok"
    /\ \E k \in EntriesAt(r, "upload", i) : calls[r][k].res = "ok"
    /\ \E k \in EntriesAt(r, "link", i) : calls[r][k].res = "ok"

\* C2: with N non-empty URLs of which exactly one fails to download and the
\* others download, upload and link, the request completes with the issue,
\* makes no upload and no link call for the failing URL, processes every
\* other URL (those after the failing one too) and returns N-1 public URLs.
C2_OneFailedDownload ==
    \A r \in Reqs : Ended(r) => \A j \in 1..Len(Received(r)) :
        (AllNonEmpty(r) /\ OnlyDownloadFails(r, j))
            => /\ ReturnsIssue(r)
               /\ EntriesAt(r, "upload", j) = {}
               /\ EntriesAt(r, "link", j) = {}
               /\ \A i \in 1..Len(Received(r)) : i # j => Mirrored(r, i)
               /\ Len(Get(Body(r), "attachments").s) = Len(Received(r)) - 1

C2_Witness ==
    \E r \in Reqs :
        /\ Completed(r) /\ AllNonEmpty(r)
        /\ Len(Received(r)) = MaxAtt
        /\ OnlyDownloadFails(r, 1)
        /\ Len(Get(Body(r), "attachments").s) = MaxAtt - 1

Detail(r) == Get(Body(r), "detail")

NoAttachmentCalls(r) == \A op \in AttachmentOps : Entries(r, op) = {}

\* the reply to the issue-creation call carried the error list errs
CreateErrors(r, errs) ==
    \E k \in Entries(r, "create") :
        calls[r][k].reply.kind = "json" /\ Truthy(errs) /\ calls[r][k].reply.errors = errs

AbortedWithoutIssue(r, status) ==
    /\ Aborted(r)
    /\ response[r].status = status
    /\ "issue" \notin DOMAIN Body(r).s
    /\ NoAttachmentCalls(r)

CarriesErrors(r, errs) ==
    Detail(r).t = "dict" /\ Get(Detail(r), "linear_errors") = errs

Range(f) == {f[x] : x \in DOMAIN f}

\* C5 as stated: whenever the issue-creation call fails (unparseable reply
\* or non-empty error list) the request is aborted with a 502 whose body
\* carries the tracker's error list, without issue fields, and no
\* attachment call is made.
C5_CreateFailureCarriesErrorList ==
    \A r \in Reqs : \A k \in Entries(r, "create") :
        LET reply == calls[r][k].reply
        IN  (reply.kind = "text" \/ (reply.kind = "json" /\ Truthy(reply.errors)))
                => /\ AbortedWithoutIssue(r, 502)
                   /\ Truthy(reply.errors)
                   /\ CarriesErrors(r, reply.errors)

\* C5 amended: a failed issue-creation call aborts the request with a 502
\* without issue fields and without any attachment call; the body carries
\* the error list verbatim when the reply had one, and the reply's status
\* code and body excerpt, and no error list, when it could not be parsed.
C5_CreateFailureAborts ==
    \A r \in Reqs : \A k \in Entries(r, "create") :
        LET reply == calls[r][k].reply
        IN  /\ (reply.kind = "json" /\ Truthy(reply.errors))
                => /\ AbortedWithoutIssue(r, 502)
                   /\ CarriesErrors(r, reply.errors)
            /\ reply.kind = "text"
                => /\ AbortedWithoutIssue(r, 502)
                   /\ Detail(r).t = "str"
                   /\ ToString(reply.status_code) \in Range(Detail(r).s)
                   /\ \A n \in 1..Len(reply.text) :
                        n <= ExcerptLen =>
                            Detail(r).s[Len(Detail(r).s) - Len(reply.text) + n] = reply.text[n]

C5_Witness ==
    \E r \in Reqs :
        /\ CreateErrors(r, List(<<"E2", "E1">>))
        /\ AbortedWithoutIssue(r, 502)
        /\ CarriesErrors(r, List(<<"E2", "E1">>))

HasEmail(r) == pc[r] # "idle" /\ Truthy(AssigneeEmail(payload[r]))
HasAssignee(input) == "assigneeId" \in DOMAIN input.s

\* C6: with an assignee email, a user lookup that fails (transport or
\* application error) aborts the request with an error response and the
\* issue-creation mutation is never sent; a lookup that succeeds, match or
\* not, does not abort the request.
C6_LookupFailureAborts ==
    \A r \in Reqs : \A k \in Entries(r, "lookup") :
        /\ ReplyFails(calls[r][k].reply)
            => /\ Aborted(r)
               /\ response[r].status \in {500, 502}
               /\ Entries(r, "create") = {}
        /\ (ReplyOk(calls[r][k].reply) /\ Len(calls[r]) = 1) => pc[r] = "create"

C6_Witness ==
    \E r \in Reqs : \E k \in Entries(r, "lookup") :
        /\ HasEmail(r)
        /\ Truthy(calls[r][k].reply.errors)
        /\ Aborted(r)
        /\ Entries(r, "create") = {}

\* C7: an event without ASSIGNEE_EMAIL (absent, null or empty) never leads
\* to a user-lookup query, and its issue-creation input has no assigneeId.
C7_NoEmailNoLookup ==
    \A r \in Reqs :
        (pc[r] # "idle" /\ ~Truthy(AssigneeEmail(payload[r])))
            => /\ Entries(r, "lookup") = {}
               /\ \A k \in Entries(r, "create") : ~HasAssignee(calls[r][k].arg)

C7_Witness ==
    \E r \in Reqs :
        /\ Completed(r)
        /\ AssigneeEmail(payload[r]) = Str(<<>>)
        /\ Sent(r, "create") # {}
        /\ Entries(r, "lookup") = {}

\* two tokens that differ at most in case
SameLetter(c, d) == c = d \/ {c, d} \in {{"a", "A"}, {"b", "B"}, {"x", "X"}}

EqualIgnoringCase(e, email) ==
    /\ e.t = "str"
    /\ Len(e.s) = Len(email.s)
    /\ \A n \in 1..Len(e.s) : SameLetter(e.s[n], email.s[n])

\* the positions of the users of a lookup reply whose email equals the
\* assignee email up to case
Matching(r, reply) ==
    LET nodes == Get(Get(reply.data, "users"), "nodes")
    IN  IF nodes.t # "list" THEN {}
        ELSE {n \in 1..Len(nodes.s) :
                EqualIgnoringCase(Get(nodes.s[n], "email"), AssigneeEmail(payload[r]))}

FirstMatchId(r, reply) ==
    LET m == Matching(r, reply)
        first == CHOOSE n \in m : \A o \in m : n <= o
    IN  Get(Get(Get(reply.data, "users"), "nodes").s[first], "id")

\* C8: after a successful lookup the issue-creation input carries an
\* assigneeId exactly when the first user whose email matches up to case has
\* an id, and then it is that id; a lookup without a match goes on to create
\* the issue without assigneeId.
C8_AssigneeIffFirstMatch ==
    \A r \in Reqs : \A l \in Entries(r, "lookup") :
        LET reply == calls[r][l].reply
        IN  ReplyOk(reply) =>
              /\ Len(calls[r]) = 1 => pc[r] = "create"
              /\ \A k \in Entries(r, "create") :
                    LET input == calls[r][k].arg
                    IN  IF Matching(r, reply) = {}
                        THEN ~HasAssignee(input)
                        ELSE /\ HasAssignee(input) <=> Truthy(FirstMatchId(r, reply))
                             /\ HasAssignee(input)
                                    => Get(input, "assigneeId") = FirstMatchId(r, reply)

\* the first of two matching users, spelled in another case, is the assignee
C8_Witness ==
    \E r \in Reqs : \E l \in Entries(r, "lookup") : \E k \in Entries(r, "create") :
        /\ ReplyOk(calls[r][l].reply)
        /\ Cardinality(Matching(r, calls[r][l].reply)) = 2
        /\ AssigneeEmail(payload[r]) = Str(<<"A", "@", "x">>)
        /\ FirstMatchId(r, calls[r][l].reply) = Str(<<"U1">>)
        /\ Get(calls[r][k].arg, "assigneeId") = Str(<<"U1">>)

\* a lookup without any match still gets its issue, without assignee
C8_WitnessNoMatch ==
    \E r \in Reqs : \E l \in Entries(r, "lookup") :
        /\ ReplyOk(calls[r][l].reply)
        /\ Matching(r, calls[r][l].reply) = {}
        /\ ReturnsIssue(r)

\* the settings an operation of the request needs and does not find: the
\* tracker's for the tracker calls, the storage's once an upload is attempted
MissingRequired(r) ==
    {v \in TrackerVars : ~Truthy(cfg[v])}
        \cup (IF Entries(r, "upload") # {} THEN {v \in R2Vars : ~Truthy(cfg[v])} ELSE {})

\* C9: a request that needs a missing setting fails with a configuration
\* error (HTTP 500) naming the missing variable, raised before any outbound
\* network call was made.
C9_ConfigErrorPreflight ==
    \A r \in Reqs : \A v \in MissingRequired(r) :
        Ended(r) => /\ Aborted(r)
                    /\ response[r].status = 500
                    /\ Detail(r).t = "str"
                    /\ v \in Range(Detail(r).s)
                    /\ \A op \in {"lookup", "create"} \cup AttachmentOps : Sent(r, op) = {}

IsOkUpload(c) == c.op = "upload" /\ c.res = "ok"
\* the successful uploads of a request, in the order they were made
OkUploads(r) == SelectSeq(calls[r], IsOkUpload)

Attachments(r) == Get(Body(r), "attachments").s

\* the bytes the download of entry i returned
Downloaded(r, i) ==
    LET k == CHOOSE k \in EntriesAt(r, "download", i) : calls[r][k].res = "ok"
    IN  calls[r][k].reply.content

\* the object behind a public URL
KeysOf(url) == {key \in DOMAIN storage : Str(PublicUrl(cfg["R2_PUBLIC_BASE_URL"].s, key)) = url}

\* the last entry of the list that was uploaded under a key
LastUploaded(r, key) ==
    LET is == {OkUploads(r)[n].i : n \in {m \in 1..Len(OkUploads(r)) :
                                            OkUploads(r)[m].arg = Str(key)}}
    IN  CHOOSE i \in is : \A o \in is : o <= i

\* C10 as stated: when a request completes, the object behind every public
\* URL it returns holds the bytes downloaded from the source URL of that
\* entry, also when two source URLs derive the same filename.
C10_RoundTrip ==
    \A r \in Reqs :
        Completed(r) =>
            /\ Len(Attachments(r)) = Len(OkUploads(r))
            /\ \A n \in 1..Len(Attachments(r)) :
                    \E key \in KeysOf(Attachments(r)[n]) :
                        storage[key].Body = Downloaded(r, OkUploads(r)[n].i)

\* C10 amended: when a request completes, the object behind every public
\* URL it returns holds the bytes downloaded from the last source URL of the
\* list that was uploaded under that key; these are the bytes of the entry's
\* own source when no later URL of the list derives the same filename.
C10_RoundTripLastWriter ==
    \A r \in Reqs :
        Completed(r) =>
            LET ups == OkUploads(r)
            IN  /\ Len(Attachments(r)) = Len(ups)
                /\ \A n \in 1..Len(ups) :
                        \E key \in KeysOf(Attachments(r)[n]) :
                            /\ ups[n].arg = Str(key)
                            /\ storage[key].Body = Downloaded(r, LastUploaded(r, key))
                            /\ (\A m \in (n + 1)..Len(ups) : ups[m].arg # Str(key))
                                => storage[key].Body = Downloaded(r, ups[n].i)

\* two different source URLs with the same filename and different bytes
C10_Witness ==
    \E r \in Reqs :
        /\ Completed(r)
        /\ Len(Attachments(r)) = 2
        /\ Received(r)[1] # Received(r)[2]
        /\ Attachments(r)[1] = Attachments(r)[2]
        /\ Downloaded(r, 1) # Downloaded(r, 2)
        /\ \E key \in KeysOf(Attachments(r)[1]) : storage[key].Body = Downloaded(r, 2)

TrackerOps == {"lookup", "create", "link"}

\* C11: no outbound call is retried: at most one user lookup and one issue
\* creation per request (exactly one creation in a completed request), at
\* most one download, one upload and one link call per entry of the list,
\* and nothing is sent after a failed tracker call.
C11_NoRetry ==
    \A r \in Reqs :
        /\ Cardinality(Sent(r, "lookup")) <= 1
        /\ Cardinality(Sent(r, "create")) <= 1
        /\ Completed(r) => Cardinality(Sent(r, "create")) = 1
        /\ \A op \in AttachmentOps : \A i \in 1..Len(Received(r)) :
                Cardinality(EntriesAt(r, op, i) \cap Sent(r, op)) <= 1
        /\ \A k \in 1..Len(calls[r]) :
                (calls[r][k].op \in TrackerOps /\ ReplyFails(calls[r][k].reply))
                    => k = Len(calls[r])

C11_Witness ==
    \E r \in Reqs :
        /\ Completed(r)
        /\ Cardinality(Sent(r, "create")) = 1
        /\ \A op \in AttachmentOps : \A i \in 1..MaxAtt :
                Cardinality(EntriesAt(r, op, i) \cap Sent(r, op)) = 1

\* the entries of the list whose upload succeeded
Uploaded(r) == {calls[r][k].i : k \in {e \in Entries(r, "upload") : calls[r][e].res = "ok"}}

\* the public URL under which entry i was uploaded
PublicUrlOf(r, i) ==
    LET k == CHOOSE e \in EntriesAt(r, "upload", i) : calls[r][e].res = "ok"
    IN  Str(PublicUrl(cfg["R2_PUBLIC_BASE_URL"].s, calls[r][k].arg.s))

\* the public URLs of the uploaded entries from position i on, in list order
RECURSIVE InInputOrder(_, _)
InInputOrder(r, i) ==
    IF i > Len(Received(r)) THEN <<>>
    ELSE (IF i \in Uploaded(r) THEN <<PublicUrlOf(r, i)>> ELSE <<>>)
            \o InInputOrder(r, i + 1)

\* C12: the attachments of a successful response are the public URLs of
\* exactly the input URLs that were mirrored, in input order, duplicates kept.
C12_StableByInputOrder ==
    \A r \in Reqs : Completed(r) => Attachments(r) = InInputOrder(r, 1)

C12_Witness ==
    \E r \in Reqs :
        /\ Completed(r)
        /\ Len(Received(r)) = 2
        /\ Attachments(r) = InInputOrder(r, 1)
        /\ Len(Attachments(r)) = 2
        /\ Attachments(r)[1] # Attachments(r)[2]

\* the response of a completed request as its own history determines it
OwnResponse(r) ==
    /\ ReturnsIssue(r)
    /\ Attachments(r) = InInputOrder(r, 1)
    /\ Get(Body(r), "assigneeId") = assignee_id[r]
    /\ Get(Body(r), "attachment_urls_received") = AttachmentUrls(payload[r])

\* the bytes uploaded under a key by any request
UploadedUnder(key) ==
    UNION {{Downloaded(q, calls[q][k].i) :
                k \in {e \in 1..Len(calls[q]) :
                            IsOkUpload(calls[q][e]) /\ calls[q][e].arg = Str(key)}} :
            q \in Reqs}

OthersUploadUnder(r, key) ==
    \E q \in Reqs \ {r} : \E k \in Entries(q, "upload") :
        calls[q][k].res = "ok" /\ calls[q][k].arg = Str(key)

\* C13 as stated: two concurrent requests are independent: the response of
\* each, and the bytes behind every public URL it returns, are what its own
\* calls alone give; no upload of the other request changes those bytes.
C13_Independent ==
    \A r \in Reqs :
        Completed(r) =>
            /\ OwnResponse(r)
            /\ \A n \in 1..Len(Attachments(r)) :
                    \E key \in KeysOf(Attachments(r)[n]) :
                        storage[key].Body = Downloaded(r, LastUploaded(r, key))

\* C13 amended: the response of each request is what its own calls alone
\* give; the bytes behind a public URL it returns are bytes some request
\* uploaded under that key, and its own unless another request uploaded
\* under the same key.
C13_IndependentUnlessSameKey ==
    \A r \in Reqs :
        Completed(r) =>
            /\ OwnResponse(r)
            /\ \A n \in 1..Len(Attachments(r)) :
                    \E key \in KeysOf(Attachments(r)[n]) :
                        /\ storage[key].Body \in UploadedUnder(key)
                        /\ ~OthersUploadUnder(r, key)
                            => storage[key].Body = Downloaded(r, LastUploaded(r, key))

\* both requests completed, with different sources of equal file name, and
\* the first one's URL serves the other's bytes
C13_Witness ==
    /\ Completed(1) /\ Completed(2)
    /\ Received(1) # Received(2)
    /\ Len(Attachments(1)) = 1 /\ Attachments(1) = Attachments(2)
    /\ \E key \in KeysOf(Attachments(1)[1]) :
            /\ storage[key].Body = Downloaded(2, 1)
            /\ storage[key].Body # Downloaded(1, 1)

\* a value that is present: a non-empty string
Present(v) == v.t = "str" /\ v.s # <<>>

\* the value of a key of the event's FIELDS, None without such a structure
FieldOf(p, k) ==
    IF "data" \notin DOMAIN p.s THEN None
    ELSE IF p.s["data"].t # "dict" THEN None
    ELSE IF "FIELDS" \notin DOMAIN p.s["data"].s THEN None
    ELSE IF p.s["data"].s["FIELDS"].t # "dict" THEN None
    ELSE IF k \notin DOMAIN p.s["data"].s["FIELDS"].s THEN None
    ELSE p.s["data"].s["FIELDS"].s[k]

TopTitle(p) == IF "title" \in DOMAIN p.s THEN p.s["title"] ELSE None

FirstPresentTitle(p) ==
    CASE Present(FieldOf(p, "TITLE")) -> FieldOf(p, "TITLE")
      [] ~Present(FieldOf(p, "TITLE")) /\ Present(FieldOf(p, "SUBJECT"))
            -> FieldOf(p, "SUBJECT")
      [] ~Present(FieldOf(p, "TITLE")) /\ ~Present(FieldOf(p, "SUBJECT"))
            /\ Present(TopTitle(p))
            -> TopTitle(p)
      [] OTHER -> Str(<<"Item do Bitrix24">>)

\* C14: the title sent to the tracker is the first present value of
\* FIELDS.TITLE, FIELDS.SUBJECT, the top-level title, else the literal
\* default; the description is FIELDS.COMMENTS or its literal default; the
\* title is never empty, whatever the shape of the payload.
C14_TitleFallback ==
    \A r \in Reqs : \A k \in Entries(r, "create") :
        LET input == calls[r][k].arg
        IN  /\ Get(input, "title") = FirstPresentTitle(payload[r])
            /\ Present(Get(input, "title"))
            /\ Get(input, "description") =
                    (IF Present(FieldOf(payload[r], "COMMENTS"))
                     THEN FieldOf(payload[r], "COMMENTS")
                     ELSE Str(<<"Criado automaticamente pelo Bitrix24.">>))

\* an empty TITLE falls through to SUBJECT, ahead of the top-level title
C14_Witness ==
    \E r \in Reqs : \E k \in Entries(r, "create") :
        /\ FieldOf(payload[r], "TITLE") = Str(<<>>)
        /\ Present(TopTitle(payload[r]))
        /\ Get(calls[r][k].arg, "title") = Str(<<"S">>)

\* a payload without data gets the default title
C14_WitnessDefault ==
    \E r \in Reqs : \E k \in Entries(r, "create") :
        /\ "data" \notin DOMAIN payload[r].s
        /\ Get(calls[r][k].arg, "title") = Str(<<"Item do Bitrix24">>)

\* the download attempts of request r, as pairs of position and source URL
DownloadAttempts(r) ==
    {<<calls[r][k].i, calls[r][k].arg>> : k \in Entries(r, "download")}

\* the attempts a list of entries allows, and those it requires of a request
\* that came to its end
NonEmptyEntries(l) == {<<i, l[i]>> : i \in {j \in 1..Len(l) : Truthy(l[j])}}

C15_WitnessNone ==
    \E r \in Reqs :
        /\ Completed(r)
        /\ FieldOf(payload[r], "ATTACHMENT_URLS") = None
        /\ NoAttachmentCalls(r)
        /\ Attachments(r) = <<>>

\* the reply to the last call of the client and what that call ended with
LastReply(r) == calls[r][Len(calls[r])].reply
Executed(r) == calls[r] # <<>> /\ calls[r][Len(calls[r])].op = "execute"

RaisedWith(r, status, detail) ==
    response[r] = [status |-> status, body |-> Dict([detail |-> detail])]

Returned(r, data) == response[r] = [status |-> 200, body |-> Dict([data |-> data])]

TransportError(r) ==
    /\ response[r].status = 502
    /\ Get(response[r].body, "detail").t = "str"

\* C16: every response of the tracker ends in exactly one of three outcomes:
\* a body that is not JSON in a 502 with the excerpt; a JSON body with a
\* non-empty error list in a 502 carrying that list, data or no data; any
\* other body in the return of its data member.
C16_ClassifiesEveryResponse ==
    \A r \in Reqs : Executed(r) =>
        LET reply == LastReply(r)
        IN  /\ reply.kind = "text" => TransportError(r)
            /\ (reply.kind = "json" /\ Truthy(reply.errors))
                    => RaisedWith(r, 502, Dict([linear_errors |-> reply.errors]))
            /\ (reply.kind = "json" /\ ~Truthy(reply.errors))
                    => Returned(r, reply.data)

\* C16 for the bodies that carry a data member
C16_ClassifiesDataResponses ==
    \A r \in Reqs : Executed(r) =>
        LET reply == LastReply(r)
        IN  /\ reply.kind = "text" => TransportError(r)
            /\ (reply.kind = "json" /\ Truthy(reply.errors))
                    => RaisedWith(r, 502, Dict([linear_errors |-> reply.errors]))
            /\ (reply.kind = "json" /\ ~Truthy(reply.errors) /\ reply.data # Absent)
                    => Returned(r, reply.data)

\* a body with errors and data ended in the 502 that carries the errors
C16_Witness ==
    \E r \in Reqs :
        /\ Executed(r)
        /\ LastReply(r).kind = "json"
        /\ Truthy(LastReply(r).errors)
        /\ Truthy(LastReply(r).data)
        /\ RaisedWith(r, 502, Dict([linear_errors |-> LastReply(r).errors]))

\* entry i of request r was downloaded, uploaded under the public URL url and
\* linked to the issue id by a call the tracker accepted
MirroredAndLinked(r, i, url, id) ==
    /\ \E d \in EntriesAt(r, "download", i) : calls[r][d].res = "ok"
    /\ \E u \in EntriesAt(r, "upload", i) :
            /\ calls[r][u].res = "ok"
            /\ Str(PublicUrl(cfg["R2_PUBLIC_BASE_URL"].s, calls[r][u].arg.s)) = url
    /\ \E l \in EntriesAt(r, "link", i) :
            /\ ReplyOk(calls[r][l].reply)
            /\ Get(calls[r][l].arg, "issueId") = id
            /\ Get(calls[r][l].arg, "url") = url

\* C17: in a successful response every public URL of the attachments list is
\* that of an entry whose download and upload succeeded and whose link call
\* succeeded with the id of the issue the same response returns.
C17_ListedMeansLinked ==
    \A r \in Reqs : Completed(r) =>
        /\ Len(Attachments(r)) = Len(OkUploads(r))
        /\ \A n \in 1..Len(Attachments(r)) :
                MirroredAndLinked(r, OkUploads(r)[n].i, Attachments(r)[n],
                                  Get(Get(Body(r), "issue"), "id"))

C17_Witness ==
    \E r \in Reqs :
        /\ Completed(r)
        /\ Get(Get(Body(r), "issue"), "id") = Str(<<"I2">>)
        /\ Len(Attachments(r)) = 2
        /\ \A n \in 1..2 : MirroredAndLinked(r, n, Attachments(r)[n], Str(<<"I2">>))

\* the position in the history is an attachment call
IsAttachmentCall(r, k) == calls[r][k].op \in AttachmentOps

\* the call at position k comes right after a successful op for the same entry
RightAfterOk(r, k, op) ==
    /\ k > 1
    /\ calls[r][k - 1].op = op
    /\ calls[r][k - 1].i = calls[r][k].i
    /\ calls[r][k - 1].res = "ok"

\* C18: the calls of one request are in order: the lookup before the issue
\* creation; every download, upload and link after a successful issue
\* creation; an upload right after the successful download of its entry, a
\* link right after the successful upload of its entry; and no call for an
\* entry once a call for a later entry was made.
C18_CallOrder ==
    \A r \in Reqs :
        LET n == Len(calls[r])
        IN  /\ \A k \in Entries(r, "lookup") : \A c \in Entries(r, "create") : k < c
            /\ \A k \in 1..n : IsAttachmentCall(r, k) =>
                    \E c \in Entries(r, "create") : c < k /\ ReplyOk(calls[r][c].reply)
            /\ \A k \in Entries(r, "upload") : RightAfterOk(r, k, "download")
            /\ \A k \in Entries(r, "link") : RightAfterOk(r, k, "upload")
            /\ \A k \in 1..n : \A j \in 1..n :
                    (k < j /\ IsAttachmentCall(r, k) /\ IsAttachmentCall(r, j))
                        => /\ calls[r][k].i <= calls[r][j].i
                           /\ (calls[r][j].op = "download" => calls[r][k].i < calls[r][j].i)

\* a request with an assignee and one attachment made its five calls in order
C18_Witness ==
    \E r \in Reqs :
        /\ Completed(r)
        /\ [k \in 1..Len(calls[r]) |-> calls[r][k].op]
                = <<"lookup", "create", "download", "upload", "link">>

\* a request with two attachments went through the first before the second
C18_WitnessTwo ==
    \E r \in Reqs :
        /\ Completed(r)
        /\ [k \in 1..Len(calls[r]) |-> <<calls[r][k].op, calls[r][k].i>>]
                = << <<"create", 0>>, <<"download", 1>>, <<"upload", 1>>, <<"link", 1>>,
                     <<"download", 2>>, <<"upload", 2>>, <<"link", 2>> >>

\* the entries of the list that are URLs
NonEmptyPositions(r) == {i \in 1..Len(Received(r)) : Truthy(Received(r)[i])}

\* C19: an empty or null entry of the list has no download, upload or link
\* call, adds nothing to the attachments of the response, and the entries
\* after it are processed.
C19_EmptyEntrySkipped ==
    \A r \in Reqs : pc[r] # "idle" =>
        \A i \in 1..Len(Received(r)) : ~Truthy(Received(r)[i]) =>
            /\ \A op \in AttachmentOps : EntriesAt(r, op, i) = {}
            /\ Completed(r) =>
                    /\ Len(Attachments(r)) <= Cardinality(NonEmptyPositions(r))
                    /\ \A j \in NonEmptyPositions(r) : EntriesAt(r, "download", j) # {}

\* an empty first entry was passed over and the second one mirrored
C19_Witness ==
    \E r \in Reqs :
        /\ Completed(r)
        /\ Len(Received(r)) = 2
        /\ ~Truthy(Received(r)[1])
        /\ NoAttachmentCalls(r) = FALSE
        /\ \A op \in AttachmentOps : EntriesAt(r, op, 1) = {} /\ EntriesAt(r, op, 2) # {}
        /\ Len(Attachments(r)) = 1

====
